---- MODULE Spec2Model ----
(***************************************************************************)
(* The memory access layer of the beebium Python client                    *)
(* (clients/python/src/beebium/memory.py) as a state machine.              *)
(*                                                                         *)
(* One action per public operation of an accessor or typed view.  An       *)
(* action computes what the Python method does with its arguments (the     *)
(* exception it raises or the value it returns, and the gRPC calls it      *)
(* issues on the stub) and applies those calls to the backend.             *)
(***************************************************************************)
EXTENDS Integers, Sequences, FiniteSets, TLC

VARIABLES
    mem,      \* backend: the bytes of the modelled address window
    ioLatch,  \* backend: read-sensitive hardware state, flipped by every
              \* side-effecting (bus) read the backend serves
    last,     \* the most recent client operation: its arguments, the
              \* backend's answer, the exception or result, and the
              \* backend calls it issued
    pre,      \* the backend (mem, ioLatch) as it was before that operation
    machine,             \* backend: the machine it emulates
    regions_cache,       \* Memory._regions_cache
    machine_type_cache,  \* Memory._machine_type_cache
    thread,              \* per thread: its position in a call on the
                         \* Memory facade, and its local `response`
    seen_machine_type,   \* per thread: what machine_type returned to it, if
                         \* that was the last call the thread made
    handle,              \* what a region(name) call has just returned, and
                         \* what machine_type had just returned to its caller
    pressed_keys,        \* Keyboard._pressed_keys
    matrix,              \* backend: the keys held down in the keyboard matrix
    hist                 \* history of the facade: GetMemoryRegions calls
                         \* issued, whether regions or machine_type has
                         \* returned

memvars == <<mem, ioLatch, last, pre>>

catvars == <<machine, regions_cache, machine_type_cache, thread,
             seen_machine_type, handle, hist>>

kbdvars == <<pressed_keys, matrix>>

vars == <<mem, ioLatch, last, pre, machine, regions_cache, machine_type_cache,
          thread, seen_machine_type, handle, pressed_keys, matrix, hist>>

(***************************************************************************)
(* Bounds of the model.                                                    *)
(***************************************************************************)
\* Highest address of the modelled window of the address space.
MaxAddr == 1

Addr == 0..MaxAddr

\* Number of threads calling the Memory facade.
NumThreads == 3

\* Number of 16-bit elements in the window of memory the typed views are
\* followed on.
MaxElems == 3

\* One past the highest address of that window.
WideTop == 2 * MaxElems

WideAddr == 0..(WideTop - 1)

\* Number of GetMemoryRegions calls followed.
MaxFetches == 2 * NumThreads

\* One past the highest address: the largest stop of a range in the window.
Top == MaxAddr + 1

(***************************************************************************)
(* Program constants.                                                      *)
(***************************************************************************)
\* Largest value of a byte (memory.py: `0 <= value <= 255`).
ByteMax == 255

Byte == 0..ByteMax

(***************************************************************************)
(* Python values.  An optional value (None or x) is the set {} or {x}.     *)
(***************************************************************************)
None == {}

Some(x) == {x}

Val(o) == CHOOSE x \in o : TRUE

\* `x or 0` for an optional integer x (memory.py: `address.start or 0`).
OrZero(o) == IF o = None THEN 0 ELSE Val(o)

\* An index given to __getitem__ / __setitem__: an int, a slice, or
\* something else (a str, None, ...).
IntIdx(a) == [kind |-> "int", addr |-> a, start |-> None, stop |-> None, step |-> None]

SliceIdx(s, t, p) == [kind |-> "slice", addr |-> 0, start |-> s, stop |-> t, step |-> p]

OtherIdx == [kind |-> "other", addr |-> 0, start |-> None, stop |-> None, step |-> None]

NoIdx == [kind |-> "none", addr |-> 0, start |-> None, stop |-> None, step |-> None]

\* A value given to a write: an int, a str, or a sequence of ints
\* (bytes, list, tuple).
IntVal(n) == [kind |-> "int", n |-> n, b |-> <<>>]

StrVal == [kind |-> "str", n |-> 1, b |-> <<>>]

ListVal(b) == [kind |-> "list", n |-> Len(b), b |-> b]

NoVal == [kind |-> "none", n |-> 0, b |-> <<>>]

\* hasattr(value, "__len__")
HasLen(v) == v.kind \in {"str", "list"}

\* len(value)
PyLen(v) == v.n

\* A result returned to the caller.
NoResult == [kind |-> "none", n |-> 0, b |-> <<>>]

IntResult(n) == [kind |-> "int", n |-> n, b |-> <<>>]

BytesResult(b) == [kind |-> "bytes", n |-> Len(b), b |-> b]

TupleResult(b) == [kind |-> "tuple", n |-> Len(b), b |-> b]

\* An exception: its Python type, the fixed text of its message, and the
\* numbers and strings interpolated into the message.
NoError == [type |-> "", text |-> "", nums |-> <<>>, strs |-> <<>>]

Error(type, text, nums, strs) == [type |-> type, text |-> text, nums |-> nums, strs |-> strs]

\* What an operation did: the exception raised (or NoError), the value
\* returned, and the stub calls issued, in order.
Outcome(err, result, calls) == [err |-> err, result |-> result, calls |-> calls]

Raise(err) == Outcome(err, NoResult, <<>>)

\* bytes(value): a str has no encoding, an int outside range(0, 256) is
\* rejected.
BytesOf(v) ==
    IF v.kind = "str"
    THEN [err |-> Error("TypeError", "string argument without an encoding", <<>>, <<>>), b |-> <<>>]
    ELSE IF \E i \in 1..Len(v.b) : v.b[i] < 0 \/ v.b[i] > ByteMax
    THEN [err |-> Error("ValueError", "bytes must be in range(0, 256)", <<>>, <<>>), b |-> <<>>]
    ELSE [err |-> NoError, b |-> v.b]

(***************************************************************************)
(* Accessor classes.                                                       *)
(***************************************************************************)
RegionNames == {"main_ram"}

\* The accessors a Memory facade hands out: address.bus, address.peek,
\* region(name).bus, region(name).peek.
Accessors ==
    {[cls |-> "BusMemoryAccessor", region |-> ""],
     [cls |-> "PeekMemoryAccessor", region |-> ""]}
    \cup {[cls |-> "RegionBusAccessor", region |-> r] : r \in RegionNames}
    \cup {[cls |-> "RegionPeekAccessor", region |-> r] : r \in RegionNames}

\* Mutant: the read-only classes derive from MemoryWriter too.
IsWriter_every_class(cls) ==
    cls \in {"BusMemoryAccessor", "RegionBusAccessor", "PeekMemoryAccessor", "RegionPeekAccessor"}

\* The classes that derive from MemoryWriter.
IsWriter(cls) == cls \in {"BusMemoryAccessor", "RegionBusAccessor"}

IsRegion(cls) == cls \in {"RegionBusAccessor", "RegionPeekAccessor"}

\* Mutant: the peek classes read through the bus RPCs.
ReadRpc_bus_only(cls) ==
    IF cls \in {"RegionBusAccessor", "RegionPeekAccessor"} THEN "ReadRegion" ELSE "ReadMemory"

\* The stub method each class's _read_bytes calls.
ReadRpc(cls) ==
    CASE cls = "BusMemoryAccessor" -> "ReadMemory"
      [] cls = "PeekMemoryAccessor" -> "PeekMemory"
      [] cls = "RegionBusAccessor" -> "ReadRegion"
      [] cls = "RegionPeekAccessor" -> "PeekRegion"

\* The stub method a writer class's _write_bytes calls.
WriteRpc(cls) == IF IsRegion(cls) THEN "WriteRegion" ELSE "WriteMemory"

SideEffectingReadRpcs == {"ReadMemory", "ReadRegion"}

WriteRpcs == {"WriteMemory", "WriteRegion"}

(***************************************************************************)
(* The backend: a store that keeps written bytes, answers a write with     *)
(* success or failure, and whose read-sensitive hardware state is          *)
(* disturbed by bus reads only.                                            *)
(***************************************************************************)
BackendRead(m, address, length) == [i \in 1..length |-> m[address + i - 1]]

BackendWrite(m, address, data) ==
    [a \in DOMAIN m |->
        IF a >= address /\ a < address + Len(data) THEN data[a - address + 1] ELSE m[a]]

\* The answers the backend gives to a write request.
WriteResponses ==
    {[success |-> TRUE, error |-> ""],
     [success |-> FALSE, error |-> "not writable"]}

\* The backend after serving the calls of one operation.
RECURSIVE MemAfter(_, _, _)
MemAfter(m, calls, resp) ==
    IF calls = <<>> THEN m
    ELSE LET c == Head(calls) IN
         MemAfter(IF c.rpc \in WriteRpcs /\ resp.success
                  THEN BackendWrite(m, c.address, c.data) ELSE m,
                  Tail(calls), resp)

RECURSIVE LatchAfter(_, _)
LatchAfter(l, calls) ==
    IF calls = <<>> THEN l
    ELSE LatchAfter(IF Head(calls).rpc \in SideEffectingReadRpcs THEN ~l ELSE l,
                    Tail(calls))

(***************************************************************************)
(* _read_bytes / _write_bytes of the four accessor classes.                *)
(***************************************************************************)
ReadCall(acc, address, length) ==
    [rpc |-> ReadRpc(acc.cls), region |-> acc.region, address |-> address,
     length |-> length, data |-> <<>>]

WriteCall(acc, address, data) ==
    [rpc |-> WriteRpc(acc.cls), region |-> acc.region, address |-> address,
     length |-> 0, data |-> data]

\* The calls issued and the bytes of the response.
read_bytes(acc, address, length, m) ==
    [calls |-> <<ReadCall(acc, address, length)>>,
     data |-> BackendRead(m, address, length)]

\* BusMemoryAccessor._write_bytes names the length and the address in its
\* MemoryAccessError; RegionBusAccessor._write_bytes also names the region
\* and the backend's error text.
write_bytes(acc, address, data, resp) ==
    Outcome(
        IF resp.success THEN NoError
        ELSE IF IsRegion(acc.cls)
        THEN Error("MemoryAccessError", "Failed to write bytes to region",
                   <<Len(data), address>>, <<acc.region, resp.error>>)
        ELSE Error("MemoryAccessError", "Failed to write bytes",
                   <<Len(data), address>>, <<>>),
        NoResult,
        <<WriteCall(acc, address, data)>>)

(***************************************************************************)
(* MemoryReader.__getitem__                                                *)
(***************************************************************************)
UnitStep(idx) == idx.step = None \/ idx.step = Some(1)

NoStop == Error("ValueError", "slice must have an explicit stop address", <<>>, <<>>)

BadStep == Error("ValueError", "memory slices with step != 1 are not supported", <<>>, <<>>)

BadIndex == Error("TypeError", "indices must be int or slice", <<>>, <<>>)

\* accessor[address]
getitem_int(acc, address, m) ==
    LET r == read_bytes(acc, address, 1, m) IN
    Outcome(NoError, IntResult(r.data[1]), r.calls)

\* Mutant: the length is taken one short.
getitem_slice_one_short(acc, idx, m) ==
    LET start == OrZero(idx.start) IN
    IF idx.stop = None THEN Raise(NoStop)
    ELSE IF ~UnitStep(idx) THEN Raise(BadStep)
    ELSE LET length == Val(idx.stop) - start - 1 IN
         IF length <= 0
         THEN Outcome(NoError, BytesResult(<<>>), <<>>)
         ELSE LET r == read_bytes(acc, start, length, m) IN
              Outcome(NoError, BytesResult(r.data), r.calls)

\* Mutant: only a negative length returns early; an empty range is sent
\* to the backend.
getitem_slice_no_shortcut(acc, idx, m) ==
    LET start == OrZero(idx.start) IN
    IF idx.stop = None THEN Raise(NoStop)
    ELSE IF ~UnitStep(idx) THEN Raise(BadStep)
    ELSE LET length == Val(idx.stop) - start IN
         IF length < 0
         THEN Outcome(NoError, BytesResult(<<>>), <<>>)
         ELSE LET r == read_bytes(acc, start, length, m) IN
              Outcome(NoError, BytesResult(r.data), r.calls)

\* Mutant: the step of the slice is not looked at.
getitem_slice_ignores_step(acc, idx, m) ==
    LET start == OrZero(idx.start) IN
    IF idx.stop = None THEN Raise(NoStop)
    ELSE LET length == Val(idx.stop) - start IN
         IF length <= 0
         THEN Outcome(NoError, BytesResult(<<>>), <<>>)
         ELSE LET r == read_bytes(acc, start, length, m) IN
              Outcome(NoError, BytesResult(r.data), r.calls)

\* accessor[start:stop:step]
getitem_slice(acc, idx, m) ==
    LET start == OrZero(idx.start) IN
    IF idx.stop = None THEN Raise(NoStop)
    ELSE IF ~UnitStep(idx) THEN Raise(BadStep)
    ELSE LET length == Val(idx.stop) - start IN
         IF length <= 0
         THEN Outcome(NoError, BytesResult(<<>>), <<>>)
         ELSE LET r == read_bytes(acc, start, length, m) IN
              Outcome(NoError, BytesResult(r.data), r.calls)

getitem(acc, idx, m) ==
    IF idx.kind = "int" THEN getitem_int(acc, idx.addr, m)
    ELSE IF idx.kind = "slice" THEN getitem_slice(acc, idx, m)
    ELSE Raise(BadIndex)

(***************************************************************************)
(* MemoryWriter.__setitem__                                                *)
(***************************************************************************)
BadByte == Error("ValueError", "single byte write requires int 0-255", <<>>, <<>>)

NotBytesLike == Error("TypeError", "slice assignment requires bytes-like object", <<>>, <<>>)

\* The message names the length of the slice and the length of the data.
SizeMismatch(slice_length, data_length) ==
    Error("ValueError", "slice assignment size mismatch", <<slice_length, data_length>>, <<>>)

\* Mutant: the byte is sent (truncated to 8 bits) before its range is
\* checked.
setitem_int_write_first(acc, address, value, resp) ==
    LET w == write_bytes(acc, address, <<IF value.kind = "int" THEN value.n % 256 ELSE 0>>, resp) IN
    IF value.kind # "int" \/ ~(0 <= value.n /\ value.n <= ByteMax)
    THEN Outcome(BadByte, NoResult, w.calls)
    ELSE w

\* Mutant: bytes(value) in place of bytes([value]): value zero bytes.
setitem_int_bytes_of_int(acc, address, value, resp) ==
    IF value.kind # "int" \/ ~(0 <= value.n /\ value.n <= ByteMax)
    THEN Raise(BadByte)
    ELSE write_bytes(acc, address, [i \in 1..value.n |-> 0], resp)

\* Mutant: only the upper end of the range is checked.
setitem_int_upper_only(acc, address, value, resp) ==
    IF value.kind # "int" \/ ~(value.n <= ByteMax)
    THEN Raise(BadByte)
    ELSE write_bytes(acc, address, <<value.n % 256>>, resp)

\* accessor[address] = value
setitem_int(acc, address, value, resp) ==
    IF value.kind # "int" \/ ~(0 <= value.n /\ value.n <= ByteMax)
    THEN Raise(BadByte)
    ELSE write_bytes(acc, address, <<value.n>>, resp)

\* Mutant: data shorter than the slice is accepted.
setitem_slice_accepts_short(acc, idx, value, resp) ==
    LET start == OrZero(idx.start) IN
    IF idx.stop = None THEN Raise(NoStop)
    ELSE IF ~UnitStep(idx) THEN Raise(BadStep)
    ELSE LET slice_length == Val(idx.stop) - start IN
         IF ~HasLen(value) THEN Raise(NotBytesLike)
         ELSE IF PyLen(value) > slice_length
         THEN Raise(SizeMismatch(slice_length, PyLen(value)))
         ELSE LET conv == BytesOf(value) IN
              IF conv.err # NoError THEN Raise(conv.err)
              ELSE write_bytes(acc, start, conv.b, resp)

\* Mutant: an empty slice returns without a backend call.
setitem_slice_skips_empty(acc, idx, value, resp) ==
    LET start == OrZero(idx.start) IN
    IF idx.stop = None THEN Raise(NoStop)
    ELSE IF ~UnitStep(idx) THEN Raise(BadStep)
    ELSE LET slice_length == Val(idx.stop) - start IN
         IF ~HasLen(value) THEN Raise(NotBytesLike)
         ELSE IF PyLen(value) # slice_length
         THEN Raise(SizeMismatch(slice_length, PyLen(value)))
         ELSE IF slice_length <= 0 THEN Outcome(NoError, NoResult, <<>>)
         ELSE LET conv == BytesOf(value) IN
              IF conv.err # NoError THEN Raise(conv.err)
              ELSE write_bytes(acc, start, conv.b, resp)

\* Mutant: a slice without stop ends where the data ends.
setitem_slice_open_ended(acc, idx, value, resp) ==
    LET start == OrZero(idx.start) IN
    IF ~UnitStep(idx) THEN Raise(BadStep)
    ELSE IF ~HasLen(value) THEN Raise(NotBytesLike)
    ELSE LET slice_length == IF idx.stop = None THEN PyLen(value)
                             ELSE Val(idx.stop) - start
         IN  IF PyLen(value) # slice_length
             THEN Raise(SizeMismatch(slice_length, PyLen(value)))
             ELSE LET conv == BytesOf(value) IN
                  IF conv.err # NoError THEN Raise(conv.err)
                  ELSE write_bytes(acc, start, conv.b, resp)

\* accessor[start:stop:step] = value
setitem_slice(acc, idx, value, resp) ==
    LET start == OrZero(idx.start) IN
    IF idx.stop = None THEN Raise(NoStop)
    ELSE IF ~UnitStep(idx) THEN Raise(BadStep)
    ELSE LET slice_length == Val(idx.stop) - start IN
         IF ~HasLen(value) THEN Raise(NotBytesLike)
         ELSE IF PyLen(value) # slice_length
         THEN Raise(SizeMismatch(slice_length, PyLen(value)))
         ELSE LET conv == BytesOf(value) IN
              IF conv.err # NoError THEN Raise(conv.err)
              ELSE write_bytes(acc, start, conv.b, resp)

setitem(acc, idx, value, resp) ==
    IF idx.kind = "int" THEN setitem_int(acc, idx.addr, value, resp)
    ELSE IF idx.kind = "slice" THEN setitem_slice(acc, idx, value, resp)
    ELSE Raise(BadIndex)

(***************************************************************************)
(* MemoryReader.read / save, MemoryWriter.write / load / fill              *)
(***************************************************************************)
read(acc, address, length, m) ==
    LET r == read_bytes(acc, address, length, m) IN
    Outcome(NoError, BytesResult(r.data), r.calls)

\* The bytes read are what is written to the file; the result stands for
\* the file's content.
save(acc, address, length, m) ==
    LET r == read_bytes(acc, address, length, m) IN
    Outcome(NoError, BytesResult(r.data), r.calls)

write(acc, address, value, resp) ==
    LET conv == BytesOf(value) IN
    IF conv.err # NoError THEN Raise(conv.err)
    ELSE write_bytes(acc, address, conv.b, resp)

\* `filedata` is the content of the file at `filepath`.
load(acc, address, filedata, max_length, resp) ==
    LET data == IF Len(filedata) > max_length
                THEN SubSeq(filedata, 1, max_length) ELSE filedata
        w == write_bytes(acc, address, data, resp)
    IN  Outcome(w.err, IF w.err = NoError THEN IntResult(Len(data)) ELSE NoResult, w.calls)

\* Mutant: no early return; [value] * length is empty for length <= 0.
fill_unguarded(acc, start, end, value, resp) ==
    LET length == end - start
        conv == BytesOf(ListVal([i \in 1..length |-> value]))
    IN  IF conv.err # NoError THEN Raise(conv.err)
        ELSE write_bytes(acc, start, conv.b, resp)

fill(acc, start, end, value, resp) ==
    LET length == end - start IN
    IF length <= 0
    THEN Outcome(NoError, NoResult, <<>>)
    ELSE LET conv == BytesOf(ListVal([i \in 1..length |-> value])) IN
         IF conv.err # NoError THEN Raise(conv.err)
         ELSE write_bytes(acc, start, conv.b, resp)

(***************************************************************************)
(* struct: formats are a byte-order character followed by a format code,   *)
(* "<H", ">H", "<B".                                                       *)
(***************************************************************************)
Fmt(order, code) == [order |-> order, code |-> code]

NoFmt == [order |-> "", code |-> ""]

\* struct.calcsize(fmt)
calcsize(fmt) == IF fmt.code = "H" THEN 2 ELSE 1

\* The values a format code can encode.
InRange(code, n) == 0 <= n /\ n < (IF code = "H" THEN 65536 ELSE 256)

\* One element as bytes, in the given byte order.
EncodeOne(order, code, n) ==
    IF code = "H"
    THEN IF order = "<" THEN <<n % 256, n \div 256>> ELSE <<n \div 256, n % 256>>
    ELSE <<n>>

DecodeOne(order, code, b) ==
    IF code = "H"
    THEN IF order = "<" THEN b[1] + 256 * b[2] ELSE 256 * b[1] + b[2]
    ELSE b[1]

RECURSIVE Flatten(_)
Flatten(ss) == IF ss = <<>> THEN <<>> ELSE Head(ss) \o Flatten(Tail(ss))

StructError(text) == Error("struct.error", text, <<>>, <<>>)

\* struct.pack(order + code, value)
pack(order, code, value) ==
    IF value.kind # "int"
    THEN [err |-> StructError("required argument is not an integer"), b |-> <<>>]
    ELSE IF ~InRange(code, value.n)
    THEN [err |-> StructError("argument out of range"), b |-> <<>>]
    ELSE [err |-> NoError, b |-> EncodeOne(order, code, value.n)]

\* struct.pack(f"{order}{count}{code}", *value)
pack_many(order, code, count, value) ==
    IF value.kind # "list"
    THEN [err |-> StructError("required argument is not an integer"), b |-> <<>>]
    ELSE IF Len(value.b) # count
    THEN [err |-> StructError("pack expected items for packing"), b |-> <<>>]
    ELSE IF \E i \in 1..count : ~InRange(code, value.b[i])
    THEN [err |-> StructError("argument out of range"), b |-> <<>>]
    ELSE [err |-> NoError,
          b |-> Flatten([i \in 1..count |-> EncodeOne(order, code, value.b[i])])]

\* struct.unpack(order + code, data)[0]
unpack(order, code, data) ==
    IF Len(data) # calcsize(Fmt(order, code))
    THEN [err |-> StructError("unpack requires a buffer of the format's size"), n |-> 0]
    ELSE [err |-> NoError, n |-> DecodeOne(order, code, data)]

\* struct.unpack(f"{order}{count}{code}", data)
unpack_many(order, code, count, data) ==
    LET size == calcsize(Fmt(order, code)) IN
    IF Len(data) # count * size
    THEN [err |-> StructError("unpack requires a buffer of the format's size"), b |-> <<>>]
    ELSE [err |-> NoError,
          b |-> [i \in 1..count |->
                    DecodeOne(order, code, SubSeq(data, (i - 1) * size + 1, i * size))]]

(***************************************************************************)
(* TypedMemoryReader.__getitem__ and TypedMemoryAccessor.__setitem__       *)
(***************************************************************************)
Misaligned(length, size) ==
    Error("ValueError", "slice length not a multiple", <<length, size>>, <<>>)

\* The message names the number of values expected and the number given.
WrongCount(expected_count, given) ==
    Error("ValueError", "expected values", <<expected_count, given>>, <<>>)

\* view[address]
typed_getitem_int(acc, fmt, address, m) ==
    LET r == read(acc, address, calcsize(fmt), m)
        u == unpack(fmt.order, fmt.code, r.result.b)
    IN  IF u.err # NoError THEN Outcome(u.err, NoResult, r.calls)
        ELSE Outcome(NoError, IntResult(u.n), r.calls)

\* Mutant: a length that is not a multiple of the size is cut down to whole
\* elements.
typed_getitem_slice_truncates(acc, fmt, idx, m) ==
    LET start == OrZero(idx.start) IN
    IF idx.stop = None THEN Raise(NoStop)
    ELSE LET count == (Val(idx.stop) - start) \div calcsize(fmt)
             r == read(acc, start, count * calcsize(fmt), m)
             u == unpack_many("<", fmt.code, count, r.result.b)
         IN  IF u.err # NoError THEN Outcome(u.err, NoResult, r.calls)
             ELSE Outcome(NoError, TupleResult(u.b), r.calls)

\* Mutant: as many bytes are read as there are elements.
typed_getitem_slice_reads_count(acc, fmt, idx, m) ==
    LET start == OrZero(idx.start) IN
    IF idx.stop = None THEN Raise(NoStop)
    ELSE LET length == Val(idx.stop) - start IN
         IF length % calcsize(fmt) # 0
         THEN Raise(Misaligned(length, calcsize(fmt)))
         ELSE LET count == length \div calcsize(fmt)
                  r == read(acc, start, count, m)
                  u == unpack_many("<", fmt.code, count, r.result.b)
              IN  IF u.err # NoError THEN Outcome(u.err, NoResult, r.calls)
                  ELSE Outcome(NoError, TupleResult(u.b), r.calls)

\* view[start:stop]
typed_getitem_slice(acc, fmt, idx, m) ==
    LET start == OrZero(idx.start) IN
    IF idx.stop = None THEN Raise(NoStop)
    ELSE LET length == Val(idx.stop) - start IN
         IF length % calcsize(fmt) # 0
         THEN Raise(Misaligned(length, calcsize(fmt)))
         ELSE LET r == read(acc, start, length, m)
                  count == length \div calcsize(fmt)
                  u == unpack_many("<", fmt.code, count, r.result.b)
              IN  IF u.err # NoError THEN Outcome(u.err, NoResult, r.calls)
                  ELSE Outcome(NoError, TupleResult(u.b), r.calls)

\* Mutant: whatever is not a slice is taken for an address.
typed_getitem_any_address(acc, fmt, idx, m) ==
    IF idx.kind = "slice" THEN typed_getitem_slice(acc, fmt, idx, m)
    ELSE typed_getitem_int(acc, fmt, idx.addr, m)

typed_getitem(acc, fmt, idx, m) ==
    IF idx.kind = "int" THEN typed_getitem_int(acc, fmt, idx.addr, m)
    ELSE IF idx.kind = "slice" THEN typed_getitem_slice(acc, fmt, idx, m)
    ELSE Raise(BadIndex)

\* Mutant: the value is packed most significant byte first.
typed_setitem_int_big_endian(acc, fmt, address, value, resp) ==
    LET p == pack(">", fmt.code, value) IN
    IF p.err # NoError THEN Raise(p.err)
    ELSE write(acc, address, ListVal(p.b), resp)

\* view[address] = value
typed_setitem_int(acc, fmt, address, value, resp) ==
    LET p == pack(fmt.order, fmt.code, value) IN
    IF p.err # NoError THEN Raise(p.err)
    ELSE write(acc, address, ListVal(p.b), resp)

\* Mutant: the number of values is left for struct.pack to check.
typed_setitem_slice_no_count_check(acc, fmt, idx, value, resp) ==
    LET start == OrZero(idx.start) IN
    IF idx.stop = None THEN Raise(NoStop)
    ELSE LET length == Val(idx.stop) - start IN
         IF length % calcsize(fmt) # 0
         THEN Raise(Misaligned(length, calcsize(fmt)))
         ELSE LET p == pack_many("<", fmt.code, length \div calcsize(fmt), value) IN
              IF p.err # NoError THEN Raise(p.err)
              ELSE write(acc, start, ListVal(p.b), resp)

\* view[start:stop] = value
typed_setitem_slice(acc, fmt, idx, value, resp) ==
    LET start == OrZero(idx.start) IN
    IF idx.stop = None THEN Raise(NoStop)
    ELSE LET length == Val(idx.stop) - start IN
         IF length % calcsize(fmt) # 0
         THEN Raise(Misaligned(length, calcsize(fmt)))
         ELSE LET expected_count == length \div calcsize(fmt) IN
              IF ~HasLen(value) \/ PyLen(value) # expected_count
              THEN Raise(WrongCount(expected_count, IF HasLen(value) THEN PyLen(value) ELSE 1))
              ELSE LET p == pack_many("<", fmt.code, expected_count, value) IN
                   IF p.err # NoError THEN Raise(p.err)
                   ELSE write(acc, start, ListVal(p.b), resp)

typed_setitem(acc, fmt, idx, value, resp) ==
    IF idx.kind = "int" THEN typed_setitem_int(acc, fmt, idx.addr, value, resp)
    ELSE IF idx.kind = "slice" THEN typed_setitem_slice(acc, fmt, idx, value, resp)
    ELSE Raise(BadIndex)

(***************************************************************************)
(* What Python does when an operation is looked up on an object whose      *)
(* class does not define it.                                               *)
(***************************************************************************)
\* cast(): MemoryReader.cast gives a TypedMemoryReader, the cast of the two
\* bus classes a TypedMemoryAccessor.
CastClass(cls) ==
    IF cls \in {"BusMemoryAccessor", "RegionBusAccessor"}
    THEN "TypedMemoryAccessor" ELSE "TypedMemoryReader"

\* Only TypedMemoryAccessor defines __setitem__.
TypedIsWriter(tcls) == tcls = "TypedMemoryAccessor"

NoItemAssignment == Error("TypeError", "object does not support item assignment", <<>>, <<>>)

NoAttribute == Error("AttributeError", "object has no attribute", <<>>, <<>>)

(***************************************************************************)
(* The arguments the operations are called with.                           *)
(***************************************************************************)
\* n bytes alternating ByteMax, 0, ByteMax, ...
Pattern(n) == [i \in 1..n |-> IF i % 2 = 1 THEN ByteMax ELSE 0]

\* n bytes alternating 0, ByteMax, 0, ...
AltPattern(n) == [i \in 1..n |-> IF i % 2 = 1 THEN 0 ELSE ByteMax]

\* n 16-bit elements whose bytes are 0 and ByteMax.
WordPattern(n) == [i \in 1..n |-> IF i % 2 = 1 THEN 256 * ByteMax ELSE ByteMax]

Range(s, t) == SliceIdx(Some(s), Some(t), None)

\* stop - start of a slice with both ends given.
Extent(s) == Val(s.stop) - Val(s.start)

\* slice(s, t) for every start in the window and every stop up to its top
\* (stop < start included).
Slices == {Range(s, t) : s \in Addr, t \in 0..Top}

\* [:1], [0:], [0:2:1], [0:2:2], [0::2]
OddSlices ==
    {SliceIdx(None, Some(1), None), SliceIdx(Some(0), None, None),
     SliceIdx(Some(0), Some(2), Some(1)), SliceIdx(Some(0), Some(2), Some(2)),
     SliceIdx(Some(0), None, Some(2))}

Indices == {IntIdx(a) : a \in Addr} \cup Slices \cup OddSlices \cup {OtherIdx}

\* (index, value) pairs for __setitem__: single bytes in and out of range,
\* ranges with data one shorter, as long and one longer, and the malformed
\* indices.
SetInputs ==
    {<<IntIdx(0), v>> : v \in {IntVal(0 - 1), IntVal(0), IntVal(ByteMax + 1), StrVal}}
    \cup {<<IntIdx(a), IntVal(ByteMax)>> : a \in Addr}
    \cup {<<p[1], ListVal(Pattern(p[2]))>> :
             p \in {q \in Slices \X (0..Top + 1) : q[2] - Extent(q[1]) \in (0 - 1)..1}}
    \cup {<<Range(0, n), ListVal(AltPattern(n))>> : n \in 1..Top}
    \cup {<<Range(0, 1), v>> : v \in {IntVal(0), StrVal, ListVal(<<ByteMax + 1>>)}}
    \cup {<<s, ListVal(Pattern(2))>> : s \in OddSlices}
    \cup {<<SliceIdx(None, Some(1), None), ListVal(Pattern(1))>>, <<OtherIdx, IntVal(0)>>}

\* The pairs tried on an accessor that has no write operation.
FewSetInputs == {<<IntIdx(0), IntVal(ByteMax)>>, <<Range(0, 2), ListVal(Pattern(2))>>}

\* (address, length) inside the window.
Blocks == {b \in Addr \X (0..Top) : b[1] + b[2] <= Top}

WriteInputs ==
    {<<b[1], ListVal(Pattern(b[2]))>> : b \in Blocks}
    \cup {<<0, StrVal>>, <<0, ListVal(<<ByteMax + 1>>)>>}

\* The write tried on an accessor that has no write operation.
FewWriteInputs == {<<0, ListVal(Pattern(1))>>}

\* (address, file content, max_length) whose file fits the window, and a
\* two-byte file loaded at the last address of the 16-bit address space,
\* with max_length 2 and with the default max_length.
LoadInputs ==
    {in \in Addr \X {Pattern(n) : n \in 0..Top} \X {0, 1, Top} : in[1] + Len(in[2]) <= Top}
    \cup {<<65535, Pattern(2), 2>>, <<65535, Pattern(2), 65536>>}

\* The load tried on an accessor that has no write operation.
FewLoadInputs == {<<0, Pattern(1), Top>>}

\* (start, end, value)
FillInputs ==
    (Addr \X (0..Top) \X {ByteMax})
    \cup ({0} \X (0..Top) \X {0, ByteMax + 1})

\* The fill tried on an accessor that has no write operation.
FewFillInputs == {<<0, 1, 0>>}

LittleU16 == Fmt("<", "H")

BigU16 == Fmt(">", "H")

LittleU8 == Fmt("<", "B")

Fmts == {LittleU16, BigU16, LittleU8}

\* Ranges for a typed view: those with stop >= start.
TypedSlices == {s \in Slices : Extent(s) >= 0}

\* (format, index) pairs for a typed read.
TypedGetInputs ==
    {<<LittleU16, IntIdx(a)>> : a \in {x \in Addr : x + 2 <= Top}}
    \cup {<<LittleU16, s>> : s \in TypedSlices \cup OddSlices \cup {OtherIdx}}
    \cup {<<BigU16, IntIdx(0)>>, <<BigU16, Range(0, 2)>>}
    \cup {<<LittleU8, IntIdx(a)>> : a \in Addr}
    \cup {<<LittleU8, Range(0, 0)>>, <<LittleU8, Range(0, Top)>>}

\* (format, index, value) triples for a typed write.
TypedSetInputs ==
    {<<LittleU16, IntIdx(0), v>> :
        v \in {IntVal(ByteMax), IntVal(256 * ByteMax), IntVal(256 * 256), StrVal,
               ListVal(<<ByteMax>>)}}
    \cup {<<LittleU16, p[1], ListVal(WordPattern(p[2]))>> :
             p \in {q \in TypedSlices \X (0..(Top \div 2) + 1) :
                       q[2] - (Extent(q[1]) \div 2) \in (0 - 1)..1}}
    \cup {<<LittleU16, Range(0, 2), v>> :
             v \in {IntVal(ByteMax), StrVal, ListVal(<<256 * 256>>)}}
    \cup {<<LittleU16, s, ListVal(WordPattern(1))>> : s \in OddSlices}
    \cup {<<LittleU16, OtherIdx, IntVal(ByteMax)>>}
    \cup {<<BigU16, IntIdx(0), IntVal(ByteMax)>>, <<BigU16, IntIdx(0), IntVal(256 * ByteMax)>>,
          <<BigU16, Range(0, 2), ListVal(WordPattern(1))>>}
    \cup {<<LittleU8, IntIdx(a), IntVal(ByteMax)>> : a \in Addr}
    \cup {<<LittleU8, IntIdx(0), IntVal(ByteMax + 1)>>,
          <<LittleU8, Range(0, Top), ListVal(Pattern(Top))>>,
          <<LittleU8, Range(0, Top), ListVal(Pattern(1))>>}

\* The typed write tried on a view that has no item assignment.
FewTypedSetInputs == {<<LittleU16, IntIdx(0), IntVal(ByteMax)>>}

OkResponse == [success |-> TRUE, error |-> ""]

\* The answers the backend can give to the calls of an operation: a write
\* request is answered with success or failure.
Responses(out) == IF out.calls # <<>> THEN WriteResponses ELSE {OkResponse}

(***************************************************************************)
(* The region catalog of the Memory facade: regions, machine_type and      *)
(* region(name), called by several threads.  A thread is preempted only    *)
(* between statements that touch the two cache attributes or the stub.     *)
(***************************************************************************)
Threads == 1..NumThreads

\* A MemoryRegionInfo, and an entry of a GetMemoryRegions response, which
\* has the same fields.
RegionInfo(name, base_address, size, writable, has_side_effects) ==
    [name |-> name, base_address |-> base_address, size |-> size,
     readable |-> TRUE, writable |-> writable,
     has_side_effects |-> has_side_effects, populated |-> TRUE, active |-> TRUE]

\* The answers of the backend to GetMemoryRegions, one per machine.
Catalogs ==
    {[machine_type |-> "ModelB",
      regions |-> <<RegionInfo("main_ram", 0, 32768, TRUE, FALSE),
                    RegionInfo("mos_rom", 49152, 16384, FALSE, FALSE)>>],
     [machine_type |-> "ModelBPlus",
      regions |-> <<RegionInfo("main_ram", 0, 32768, TRUE, FALSE),
                    RegionInfo("shadow_ram", 12288, 20480, TRUE, FALSE),
                    RegionInfo("mos_rom", 49152, 16384, FALSE, FALSE)>>]}

\* The backend answers GetMemoryRegions with the catalog of its machine.
GetMemoryRegions(m) == CHOOSE c \in Catalogs : c.machine_type = m

\* The names region(name) is called with.
LookupNames == {"main_ram", "shadow_ram"}

\* MemoryRegionInfo(name=r.name, ...): a copy of the entry, field by field.
MemoryRegionInfoOf(r) ==
    [name |-> r.name, base_address |-> r.base_address, size |-> r.size,
     readable |-> r.readable, writable |-> r.writable,
     has_side_effects |-> r.has_side_effects, populated |-> r.populated,
     active |-> r.active]

\* `if self._regions_cache is None` / `if self._machine_type_cache is None`
cache_is_none_never_cached(c) == TRUE

cache_is_none(c) == c = None

\* `self._machine_type_cache = response.machine_type`
machine_type_of_not_stored(response) == None

machine_type_of(response) == Some(response.machine_type)

\* `self._regions_cache = [MemoryRegionInfo(...) for r in response.regions]`
regions_of(response) ==
    Some([i \in 1..Len(response.regions) |-> MemoryRegionInfoOf(response.regions[i])])

\* The first entry of the list with the name, if any.
RECURSIVE first_named(_, _, _)
first_named(infos, name, i) ==
    IF i > Len(infos) THEN None
    ELSE IF infos[i].name = name THEN Some(infos[i])
    ELSE first_named(infos, name, i + 1)

Handle(name, base_address, size) ==
    [name |-> name, base_address |-> base_address, size |-> size]

\* Memory.region: base_address and size of the handle it builds.
region_lookup_ignores_cache(cache, name) == Handle(name, None, None)

region_lookup(cache, name) ==
    IF cache = None THEN Handle(name, None, None)
    ELSE LET found == first_named(Val(cache), name, 1)
         IN  IF found = None THEN Handle(name, None, None)
             ELSE Handle(name, Some(Val(found).base_address), Some(Val(found).size))

IdleThread == [pc |-> "idle", op |-> "", response |-> None]

\* A Memory facade just constructed, and no call made on it yet.
FreshFacade ==
    /\ regions_cache = None
    /\ machine_type_cache = None
    /\ thread = [t \in Threads |-> IdleThread]
    /\ seen_machine_type = [t \in Threads |-> None]
    /\ handle = None
    /\ hist = [fetches |-> 0, done |-> FALSE, regions_done |-> FALSE]

\* A Keyboard just constructed, and no key held down in the backend.
FreshKeyboard ==
    /\ pressed_keys = {}
    /\ matrix = {}

OthersBusy(t) == \E u \in Threads \ {t} : thread[u].pc # "idle"

\* A thread enters the regions property and tests the cache.
BeginRegions(t) ==
    /\ thread[t].pc = "idle"
    /\ thread' = [thread EXCEPT ![t] =
                     [pc |-> IF cache_is_none(regions_cache) THEN "call" ELSE "return",
                      op |-> "regions", response |-> None]]
    /\ seen_machine_type' = [seen_machine_type EXCEPT ![t] = None]
    /\ handle' = None
    /\ UNCHANGED <<regions_cache, machine_type_cache, hist>>

\* A thread enters the machine_type property and tests the cache.
BeginMachineType(t) ==
    /\ thread[t].pc = "idle"
    /\ thread' = [thread EXCEPT ![t] =
                     [pc |-> IF cache_is_none(machine_type_cache) THEN "call" ELSE "return",
                      op |-> "machine_type", response |-> None]]
    /\ seen_machine_type' = [seen_machine_type EXCEPT ![t] = None]
    /\ handle' = None
    /\ UNCHANGED <<regions_cache, machine_type_cache, hist>>

\* _fetch_regions: `response = self._stub.GetMemoryRegions(request)`
FetchCall(t) ==
    /\ thread[t].pc = "call"
    /\ hist.fetches < MaxFetches
    /\ thread' = [thread EXCEPT ![t].pc = "store_machine_type",
                                ![t].response = Some(GetMemoryRegions(machine))]
    /\ hist' = [hist EXCEPT !.fetches = hist.fetches + 1]
    /\ handle' = None
    /\ UNCHANGED <<regions_cache, machine_type_cache, seen_machine_type>>

\* _fetch_regions: `self._machine_type_cache = response.machine_type`
StoreMachineType(t) ==
    /\ thread[t].pc = "store_machine_type"
    /\ machine_type_cache' = machine_type_of(Val(thread[t].response))
    /\ thread' = [thread EXCEPT ![t].pc = "store_regions"]
    /\ handle' = None
    /\ UNCHANGED <<regions_cache, seen_machine_type, hist>>

\* _fetch_regions: `self._regions_cache = [...]`
StoreRegions(t) ==
    /\ thread[t].pc = "store_regions"
    /\ regions_cache' = regions_of(Val(thread[t].response))
    /\ thread' = [thread EXCEPT ![t].pc = "return"]
    /\ handle' = None
    /\ UNCHANGED <<machine_type_cache, seen_machine_type, hist>>

\* `return self._regions_cache` / `return self._machine_type_cache`
Return(t) ==
    /\ thread[t].pc = "return"
    /\ thread' = [thread EXCEPT ![t] = IdleThread]
    /\ seen_machine_type' =
           IF thread[t].op = "machine_type"
           THEN [seen_machine_type EXCEPT ![t] = machine_type_cache]
           ELSE seen_machine_type
    /\ hist' = [hist EXCEPT !.done = TRUE,
                            !.regions_done = hist.regions_done \/ thread[t].op = "regions"]
    /\ handle' = None
    /\ UNCHANGED <<regions_cache, machine_type_cache>>

\* Memory.region(name)
RegionCall(t) ==
    /\ thread[t].pc = "idle"
    /\ \E name \in LookupNames :
           handle' = Some([seen |-> seen_machine_type[t],
                           region |-> region_lookup(regions_cache, name)])
    /\ seen_machine_type' = [seen_machine_type EXCEPT ![t] = None]
    /\ UNCHANGED <<regions_cache, machine_type_cache, thread, hist>>

(***************************************************************************)
(* The state machine.                                                      *)
(***************************************************************************)
\* The backend before any call.
MemoryInit ==
    /\ mem = [a \in Addr |-> 0]
    /\ ioLatch = FALSE
    /\ last = [op |-> "", acc |-> [cls |-> "", region |-> ""], fmt |-> NoFmt,
               idx |-> NoIdx, value |-> NoVal, args |-> <<>>,
               resp |-> OkResponse, err |-> NoError, result |-> NoResult,
               calls |-> <<>>]
    /\ pre = [mem |-> mem, ioLatch |-> ioLatch]

Init ==
    /\ MemoryInit
    /\ machine = "ModelB"
    /\ FreshFacade
    /\ FreshKeyboard

\* One operation: record it and let the backend serve its calls.
Do(op, acc, fmt, idx, value, args, out, resp) ==
    /\ last' = [op |-> op, acc |-> acc, fmt |-> fmt, idx |-> idx, value |-> value,
                args |-> args, resp |-> resp, err |-> out.err,
                result |-> out.result, calls |-> out.calls]
    /\ mem' = MemAfter(mem, out.calls, resp)
    /\ ioLatch' = LatchAfter(ioLatch, out.calls)
    /\ pre' = [mem |-> mem, ioLatch |-> ioLatch]
    /\ UNCHANGED <<catvars, kbdvars>>

\* accessor[index]
Getitem ==
    \E acc \in Accessors, idx \in Indices :
        Do("__getitem__", acc, NoFmt, idx, NoVal, <<>>, getitem(acc, idx, mem), OkResponse)

\* accessor[index] = value; an accessor without __setitem__ does not
\* support item assignment.
op_setitem(acc, idx, value, resp) ==
    IF IsWriter(acc.cls) THEN setitem(acc, idx, value, resp) ELSE Raise(NoItemAssignment)

Setitem ==
    \E acc \in Accessors :
        \E in \in (IF IsWriter(acc.cls) THEN SetInputs ELSE FewSetInputs) :
            \E resp \in Responses(op_setitem(acc, in[1], in[2], OkResponse)) :
                /\ Do("__setitem__", acc, NoFmt, in[1], in[2], <<>>,
                      op_setitem(acc, in[1], in[2], resp), resp)

\* accessor.read(address, length)
Read ==
    \E acc \in Accessors, b \in Blocks :
        Do("read", acc, NoFmt, NoIdx, NoVal, <<b[1], b[2]>>,
           read(acc, b[1], b[2], mem), OkResponse)

\* accessor.save(address, length, filepath)
Save ==
    \E acc \in Accessors, b \in Blocks :
        Do("save", acc, NoFmt, NoIdx, NoVal, <<b[1], b[2]>>,
           save(acc, b[1], b[2], mem), OkResponse)

\* accessor.write(address, data)
op_write(acc, address, value, resp) ==
    IF IsWriter(acc.cls) THEN write(acc, address, value, resp) ELSE Raise(NoAttribute)

Write ==
    \E acc \in Accessors :
        \E in \in (IF IsWriter(acc.cls) THEN WriteInputs ELSE FewWriteInputs) :
            \E resp \in Responses(op_write(acc, in[1], in[2], OkResponse)) :
                /\ Do("write", acc, NoFmt, NoIdx, in[2], <<in[1]>>,
                      op_write(acc, in[1], in[2], resp), resp)

\* accessor.load(address, filepath, max_length)
op_load(acc, address, filedata, max_length, resp) ==
    IF IsWriter(acc.cls) THEN load(acc, address, filedata, max_length, resp)
    ELSE Raise(NoAttribute)

Load ==
    \E acc \in Accessors :
        \E in \in (IF IsWriter(acc.cls) THEN LoadInputs ELSE FewLoadInputs) :
            \E resp \in Responses(op_load(acc, in[1], in[2], in[3], OkResponse)) :
                /\ Do("load", acc, NoFmt, NoIdx, ListVal(in[2]), <<in[1], in[3]>>,
                      op_load(acc, in[1], in[2], in[3], resp), resp)

\* accessor.fill(start, end, value)
op_fill(acc, start, end, value, resp) ==
    IF IsWriter(acc.cls) THEN fill(acc, start, end, value, resp) ELSE Raise(NoAttribute)

Fill ==
    \E acc \in Accessors :
        \E in \in (IF IsWriter(acc.cls) THEN FillInputs ELSE FewFillInputs) :
            \E resp \in Responses(op_fill(acc, in[1], in[2], in[3], OkResponse)) :
                /\ Do("fill", acc, NoFmt, NoIdx, IntVal(in[3]), <<in[1], in[2]>>,
                      op_fill(acc, in[1], in[2], in[3], resp), resp)

\* accessor.cast(fmt)[index]
TypedGetitem ==
    \E acc \in Accessors, in \in TypedGetInputs :
        Do("cast.__getitem__", acc, in[1], in[2], NoVal, <<>>,
           typed_getitem(acc, in[1], in[2], mem), OkResponse)

\* accessor.cast(fmt)[index] = value; a TypedMemoryReader does not support
\* item assignment, and a TypedMemoryAccessor writes through the write
\* method of the accessor it wraps.
op_typed_setitem(acc, fmt, idx, value, resp) ==
    IF ~TypedIsWriter(CastClass(acc.cls)) THEN Raise(NoItemAssignment)
    ELSE IF ~IsWriter(acc.cls) THEN Raise(NoAttribute)
    ELSE typed_setitem(acc, fmt, idx, value, resp)

TypedSetitem ==
    \E acc \in Accessors :
        \E in \in (IF TypedIsWriter(CastClass(acc.cls)) THEN TypedSetInputs
                   ELSE FewTypedSetInputs) :
            \E resp \in Responses(op_typed_setitem(acc, in[1], in[2], in[3], OkResponse)) :
                /\ Do("cast.__setitem__", acc, in[1], in[2], in[3], <<>>,
                      op_typed_setitem(acc, in[1], in[2], in[3], resp), resp)

Next ==
    \/ Getitem
    \/ Setitem
    \/ Read
    \/ Save
    \/ Write
    \/ Load
    \/ Fill
    \/ TypedGetitem
    \/ TypedSetitem

Spec == Init /\ [][Next]_vars

(***************************************************************************)
(* Typed views on a window of several 16-bit elements.                     *)
(***************************************************************************)
\* Memory holding the 16-bit little-endian elements 1, 2, 3, ...
Ascending == [a \in WideAddr |-> IF a % 2 = 0 THEN (a \div 2) + 1 ELSE 0]

\* Memory holding the bytes 0x34, 0x12 over and over: the 16-bit
\* little-endian element 0x1234 at every even address.
Mixed == [a \in WideAddr |-> IF a % 2 = 0 THEN 52 ELSE 18]

\* The elements 1, 2, ..., n.
Counting(n) == [i \in 1..n |-> i]

\* (format, index) pairs for a typed read.
WideGetInputs ==
    (Fmts \X ({IntIdx(a) : a \in {0, 1, WideTop - 2}}
              \cup {Range(0, WideTop), Range(0, 2), Range(2, WideTop), Range(0, 3),
                    Range(1, 3), Range(0, 0), Range(0, 1)}))
    \cup ({LittleU16} \X {SliceIdx(None, Some(2), None), SliceIdx(Some(0), None, None),
                          SliceIdx(Some(0), Some(2), Some(1)), OtherIdx})

\* (format, index, value) triples for a typed write.
WideSetInputs ==
    {<<LittleU16, IntIdx(0), v>> :
        v \in {IntVal(4660), IntVal(0), IntVal(65535), IntVal(65536), IntVal(0 - 1),
               StrVal, ListVal(<<1>>)}}
    \cup {<<LittleU16, IntIdx(WideTop - 2), IntVal(4660)>>,
          <<BigU16, IntIdx(0), IntVal(13330)>>,
          <<LittleU8, IntIdx(0), IntVal(52)>>,
          <<LittleU8, IntIdx(0), IntVal(ByteMax + 1)>>}
    \cup {<<LittleU16, Range(0, WideTop), ListVal(Counting(n))>> :
             n \in (MaxElems - 1)..(MaxElems + 1)}
    \cup {<<LittleU16, Range(0, WideTop), v>> :
             v \in {IntVal(1), StrVal, ListVal([i \in 1..MaxElems |-> 65536])}}
    \cup {<<LittleU16, Range(0, 2), v>> :
             v \in {ListVal(<<4660>>), IntVal(4660), StrVal, ListVal(<<>>)}}
    \cup {<<LittleU16, Range(0, 3), ListVal(<<4660>>)>>,
          <<LittleU16, Range(0, 1), ListVal(<<>>)>>,
          <<LittleU16, Range(0, 0), ListVal(<<>>)>>,
          <<LittleU16, SliceIdx(None, Some(2), None), ListVal(<<4660>>)>>,
          <<LittleU16, SliceIdx(Some(0), None, None), ListVal(<<4660>>)>>,
          <<LittleU16, OtherIdx, IntVal(4660)>>,
          <<BigU16, Range(0, 2), ListVal(<<4660>>)>>,
          <<LittleU8, Range(0, 2), ListVal(<<52, 18>>)>>,
          <<LittleU8, Range(0, 2), ListVal(<<52>>)>>}

\* The typed write tried on a view that has no item assignment.
FewWideSetInputs == {<<LittleU16, IntIdx(0), IntVal(4660)>>}

WideInit ==
    /\ mem \in {Ascending, Mixed}
    /\ ioLatch = FALSE
    /\ last = [op |-> "", acc |-> [cls |-> "", region |-> ""], fmt |-> NoFmt,
               idx |-> NoIdx, value |-> NoVal, args |-> <<>>,
               resp |-> OkResponse, err |-> NoError, result |-> NoResult,
               calls |-> <<>>]
    /\ pre = [mem |-> mem, ioLatch |-> ioLatch]
    /\ machine = "ModelB"
    /\ FreshFacade
    /\ FreshKeyboard

\* accessor.cast(fmt)[index]
WideTypedGetitem ==
    \E acc \in Accessors, in \in WideGetInputs :
        Do("cast.__getitem__", acc, in[1], in[2], NoVal, <<>>,
           typed_getitem(acc, in[1], in[2], mem), OkResponse)

\* accessor.cast(fmt)[index] = value
WideTypedSetitem ==
    \E acc \in Accessors :
        \E in \in (IF TypedIsWriter(CastClass(acc.cls)) THEN WideSetInputs
                   ELSE FewWideSetInputs) :
            \E resp \in Responses(op_typed_setitem(acc, in[1], in[2], in[3], OkResponse)) :
                /\ Do("cast.__setitem__", acc, in[1], in[2], in[3], <<>>,
                      op_typed_setitem(acc, in[1], in[2], in[3], resp), resp)

TypedNext ==
    \/ WideTypedGetitem
    \/ WideTypedSetitem

TypedSpec == WideInit /\ [][TypedNext]_vars

(***************************************************************************)
(* The Memory facade called by several threads.                            *)
(***************************************************************************)
CatalogInit ==
    /\ MemoryInit
    /\ machine \in {c.machine_type : c \in Catalogs}
    /\ FreshFacade
    /\ FreshKeyboard

EnterRegions == \E t \in Threads : BeginRegions(t) /\ UNCHANGED <<memvars, machine, kbdvars>>

EnterMachineType == \E t \in Threads : BeginMachineType(t) /\ UNCHANGED <<memvars, machine, kbdvars>>

Fetch == \E t \in Threads : FetchCall(t) /\ UNCHANGED <<memvars, machine, kbdvars>>

SetMachineType == \E t \in Threads : StoreMachineType(t) /\ UNCHANGED <<memvars, machine, kbdvars>>

SetRegions == \E t \in Threads : StoreRegions(t) /\ UNCHANGED <<memvars, machine, kbdvars>>

Leave == \E t \in Threads : Return(t) /\ UNCHANGED <<memvars, machine, kbdvars>>

GetRegion == \E t \in Threads : RegionCall(t) /\ UNCHANGED <<memvars, machine, kbdvars>>

CatalogNext ==
    \/ EnterRegions
    \/ EnterMachineType
    \/ Fetch
    \/ SetMachineType
    \/ SetRegions
    \/ Leave
    \/ GetRegion

CatalogSpec == CatalogInit /\ [][CatalogNext]_vars

(***************************************************************************)
(* The Memory facade used sequentially: a call begins only when no other   *)
(* call is under way.                                                      *)
(***************************************************************************)
SeqEnterRegions ==
    \E t \in Threads : ~OthersBusy(t) /\ BeginRegions(t) /\ UNCHANGED <<memvars, machine, kbdvars>>

SeqEnterMachineType ==
    \E t \in Threads : ~OthersBusy(t) /\ BeginMachineType(t) /\ UNCHANGED <<memvars, machine, kbdvars>>

SeqGetRegion ==
    \E t \in Threads : ~OthersBusy(t) /\ RegionCall(t) /\ UNCHANGED <<memvars, machine, kbdvars>>

SeqCatalogNext ==
    \/ SeqEnterRegions
    \/ SeqEnterMachineType
    \/ Fetch
    \/ SetMachineType
    \/ SetRegions
    \/ Leave
    \/ SeqGetRegion

SeqCatalogSpec == CatalogInit /\ [][SeqCatalogNext]_vars

(***************************************************************************)
(* Access through a region handle: memory.region(name).bus[index],         *)
(* memory.region(name).peek[index] and memory.region(name).bus[index] =    *)
(* value, on a facade whose catalog is cached or not.                      *)
(***************************************************************************)
\* Region.bus and Region.peek build the accessor from the stub and the
\* region name.
accessor_of(h, kind) ==
    [cls |-> IF kind = "bus" THEN "RegionBusAccessor" ELSE "RegionPeekAccessor",
     region |-> h.name]

\* The index n addresses lower.
Lowered(idx, n) ==
    IF idx.kind = "int" THEN IntIdx(idx.addr - n)
    ELSE SliceIdx(Some(OrZero(idx.start) - n), Some(Val(idx.stop) - n), idx.step)

\* Mutant: addresses are made relative to the base address of the handle.
region_getitem_relative(h, kind, idx, m) ==
    getitem(accessor_of(h, kind), Lowered(idx, OrZero(h.base_address)), m)

\* region(name).bus[index] and region(name).peek[index]
region_getitem(h, kind, idx, m) == getitem(accessor_of(h, kind), idx, m)

\* region(name).bus[index] = value
region_setitem(h, idx, value, resp) == setitem(accessor_of(h, "bus"), idx, value, resp)

\* Where the hardware maps the region: the base address the backend of the
\* machine with every region reports for it.
HardwareBase(name) ==
    Val(first_named(GetMemoryRegions("ModelBPlus").regions, name, 1)).base_address

HandleNames == {"main_ram", "shadow_ram", "mos_rom"}

\* The backend's store under two addresses of each region: the first of
\* its mapping and one above it.
RegionMem == {HardwareBase(name) + o : name \in HandleNames, o \in {0, MaxAddr}}

\* (name, bus or peek, index): the addresses of the window, and the empty
\* and the one-byte range at its start.
RegionGetInputs ==
    {<<name, kind, IntIdx(HardwareBase(name) + o)>> :
        name \in HandleNames, kind \in {"bus", "peek"}, o \in {0, MaxAddr}}
    \cup {<<name, kind, Range(HardwareBase(name), HardwareBase(name) + n)>> :
             name \in HandleNames, kind \in {"bus", "peek"}, n \in {0, 1}}

\* (name, index, value)
RegionSetInputs ==
    {<<name, IntIdx(HardwareBase(name) + o), IntVal(ByteMax)>> :
        name \in HandleNames, o \in {0, MaxAddr}}
    \cup {<<name, IntIdx(HardwareBase(name)), IntVal(0)>> : name \in HandleNames}
    \cup {<<name, Range(HardwareBase(name), HardwareBase(name) + 1), ListVal(Pattern(1))>> :
             name \in HandleNames}

\* A facade that has not fetched the catalog, or has fetched it once.
RegionInit ==
    /\ mem = [a \in RegionMem |-> 0]
    /\ ioLatch = FALSE
    /\ last = [op |-> "", acc |-> [cls |-> "", region |-> ""], fmt |-> NoFmt,
               idx |-> NoIdx, value |-> NoVal, args |-> <<>>,
               resp |-> OkResponse, err |-> NoError, result |-> NoResult,
               calls |-> <<>>]
    /\ pre = [mem |-> mem, ioLatch |-> ioLatch]
    /\ machine \in {c.machine_type : c \in Catalogs}
    /\ \E fetched \in BOOLEAN :
          /\ regions_cache =
                IF fetched THEN regions_of(GetMemoryRegions(machine)) ELSE None
          /\ machine_type_cache =
                IF fetched THEN machine_type_of(GetMemoryRegions(machine)) ELSE None
          /\ hist = [fetches |-> IF fetched THEN 1 ELSE 0, done |-> fetched,
                     regions_done |-> fetched]
    /\ thread = [t \in Threads |-> IdleThread]
    /\ seen_machine_type = [t \in Threads |-> None]
    /\ handle = None
    /\ FreshKeyboard

RegionGetitem ==
    \E in \in RegionGetInputs :
        LET h == region_lookup(regions_cache, in[1]) IN
        Do("__getitem__", accessor_of(h, in[2]), NoFmt, in[3], NoVal, <<>>,
           region_getitem(h, in[2], in[3], mem), OkResponse)

RegionSetitem ==
    \E in \in RegionSetInputs :
        \E resp \in WriteResponses :
            LET h == region_lookup(regions_cache, in[1]) IN
            Do("__setitem__", accessor_of(h, "bus"), NoFmt, in[2], in[3], <<>>,
               region_setitem(h, in[2], in[3], resp), resp)

RegionNext ==
    \/ RegionGetitem
    \/ RegionSetitem

RegionSpec == RegionInit /\ [][RegionNext]_vars

(***************************************************************************)
(* Keyboard: key_down, key_up and release_all over the characters Chars.   *)
(* The backend keeps the set of matrix positions held down: KeyDown adds   *)
(* a position and KeyUp removes it.                                        *)
(***************************************************************************)
SHIFT_KEY == <<0, 0>>

\* The characters given to key_down and key_up: a letter in both cases, a
\* second upper-case letter, a digit and the symbol on its key, and a
\* character that has no entry in the map (a tab).
Chars == {"a", "A", "B", "1", "!", "\t"}

\* _CHARACTER_MAP.get(char): (row, column, needs_shift), or None
char_to_matrix(char) ==
    CASE char = "a" -> Some(<<4, 1, FALSE>>)
      [] char = "A" -> Some(<<4, 1, TRUE>>)
      [] char = "B" -> Some(<<6, 4, TRUE>>)
      [] char = "1" -> Some(<<3, 0, FALSE>>)
      [] char = "!" -> Some(<<3, 0, TRUE>>)
      [] OTHER -> None

\* The methods act on kb, the keyboard and its backend during an operation:
\* the pressed-key set, the backend's matrix, and the stub calls issued so
\* far.
matrix_down(kb, pos) ==
    [kb EXCEPT !.matrix = @ \cup {pos},
               !.calls = Append(@, [rpc |-> "KeyDown", row |-> pos[1], column |-> pos[2]])]

matrix_up(kb, pos) ==
    [kb EXCEPT !.matrix = @ \ {pos},
               !.calls = Append(@, [rpc |-> "KeyUp", row |-> pos[1], column |-> pos[2]])]

key_down(kb, char) ==
    LET mapping == char_to_matrix(char) IN
    IF mapping = None THEN [kb |-> kb, result |-> FALSE]
    ELSE LET row == Val(mapping)[1]
             column == Val(mapping)[2]
             needs_shift == Val(mapping)[3]
             shifted == IF needs_shift THEN matrix_down(kb, SHIFT_KEY) ELSE kb
             down == matrix_down(shifted, <<row, column>>)
         IN  [kb |-> [down EXCEPT !.pressed_keys = @ \cup {<<char, needs_shift>>}],
              result |-> TRUE]

\* Mutant: SHIFT is released with every shifted character.
key_up_releases_shift(kb, char) ==
    LET mapping == char_to_matrix(char) IN
    IF mapping = None THEN [kb |-> kb, result |-> FALSE]
    ELSE LET up == matrix_up(kb, <<Val(mapping)[1], Val(mapping)[2]>>)
             rest == [up EXCEPT !.pressed_keys = @ \ {<<char, Val(mapping)[3]>>}]
         IN  [kb |-> IF Val(mapping)[3] THEN matrix_up(rest, SHIFT_KEY) ELSE rest,
              result |-> TRUE]

key_up(kb, char) ==
    LET mapping == char_to_matrix(char) IN
    IF mapping = None THEN [kb |-> kb, result |-> FALSE]
    ELSE LET row == Val(mapping)[1]
             column == Val(mapping)[2]
             needs_shift == Val(mapping)[3]
             up == matrix_up(kb, <<row, column>>)
         IN  IF needs_shift
             THEN LET rest == [up EXCEPT !.pressed_keys = @ \ {<<char, TRUE>>}] IN
                  [kb |-> IF ~\E key \in rest.pressed_keys : key[2]
                          THEN matrix_up(rest, SHIFT_KEY)
                          ELSE rest,
                   result |-> TRUE]
             ELSE [kb |-> [up EXCEPT !.pressed_keys = @ \ {<<char, FALSE>>}],
                   result |-> TRUE]

\* release_all, with the keys taken in the given order.
RECURSIVE release_all(_, _)
release_all(kb, order) ==
    IF order = <<>> THEN kb
    ELSE release_all(key_up(kb, Head(order)[1]).kb, Tail(order))

KeyboardInit ==
    /\ FreshKeyboard
    /\ last = [op |-> "", char |-> "", result |-> FALSE, calls |-> <<>>]
    /\ hist = [held |-> {}]
    /\ mem = [a \in Addr |-> 0]
    /\ ioLatch = FALSE
    /\ pre = [mem |-> mem, ioLatch |-> ioLatch]
    /\ machine = "ModelB"
    /\ regions_cache = None
    /\ machine_type_cache = None
    /\ thread = [t \in Threads |-> IdleThread]
    /\ seen_machine_type = [t \in Threads |-> None]
    /\ handle = None

\* One operation of the keyboard: record it, keep its pressed-key set and
\* the backend's matrix; held is the set of characters pressed by key_down
\* and not released since.
DoKey(op, char, kb, result, held) ==
    /\ pressed_keys' = kb.pressed_keys
    /\ matrix' = kb.matrix
    /\ last' = [op |-> op, char |-> char, result |-> result, calls |-> kb.calls]
    /\ hist' = [held |-> held]
    /\ UNCHANGED <<mem, ioLatch, pre, machine, regions_cache, machine_type_cache,
                   thread, seen_machine_type, handle>>

KeyDown ==
    \E char \in Chars :
        LET out == key_down([pressed_keys |-> pressed_keys, matrix |-> matrix,
                             calls |-> <<>>], char)
        IN  /\ DoKey("key_down", char, out.kb, out.result,
                     IF out.result THEN hist.held \cup {char} ELSE hist.held)

KeyUp ==
    \E char \in Chars :
        LET out == key_up([pressed_keys |-> pressed_keys, matrix |-> matrix,
                           calls |-> <<>>], char)
        IN  /\ DoKey("key_up", char, out.kb, out.result, hist.held \ {char})

\* list(self._pressed_keys) yields the keys in some order.
ReleaseAll ==
    \E order \in {o \in [1..Cardinality(pressed_keys) -> pressed_keys] :
                      \A i, j \in DOMAIN o : i # j => o[i] # o[j]} :
        /\ DoKey("release_all", "",
                 release_all([pressed_keys |-> pressed_keys, matrix |-> matrix,
                              calls |-> <<>>], order),
                 FALSE, hist.held \ {key[1] : key \in pressed_keys})

KeyboardNext ==
    \/ KeyDown
    \/ KeyUp
    \/ ReleaseAll

KeyboardSpec == KeyboardInit /\ [][KeyboardNext]_vars

(***************************************************************************)
(* Properties.                                                             *)
(***************************************************************************)
IsInspect(cls) == cls \in {"PeekMemoryAccessor", "RegionPeekAccessor"}

IsDirect(cls) == cls \in {"BusMemoryAccessor", "RegionBusAccessor"}

ReadOps == {"__getitem__", "read", "save", "cast.__getitem__"}

\* The last index was a slice with an explicit stop and no step other than 1.
WellFormedSlice == last.idx.kind = "slice" /\ last.idx.stop # None /\ UnitStep(last.idx)

LastStart == OrZero(last.idx.start)

LastExtent == Val(last.idx.stop) - LastStart

\* The last value was a sequence of bytes.
ByteData == last.value.kind = "list" /\ \A i \in 1..Len(last.value.b) : last.value.b[i] \in Byte

\* The operation raised no error unless the backend refused the write.
Succeeded ==
    /\ last.resp.success => last.err = NoError
    /\ ~last.resp.success => last.err.type = "MemoryAccessError"

\* C1: an operation that ends in a client-side error (any exception other
\* than the MemoryAccessError that reports a backend failure) issued no
\* backend call, and left the backend as it was.
C1_FailFast ==
    (last.err # NoError /\ last.err.type # "MemoryAccessError")
        => (last.calls = <<>> /\ mem = pre.mem /\ ioLatch = pre.ioLatch)

\* A single-byte write of 256 was rejected while memory holds written bytes.
C1_Witness ==
    /\ last.op = "__setitem__"
    /\ last.value = IntVal(ByteMax + 1)
    /\ last.err = BadByte
    /\ mem[0] = ByteMax

\* C2: reading address A through the flat bus accessor right after a
\* single-byte write of v to A through it, which the backend accepted,
\* returns v.
C2_ByteRoundTrip ==
    [][(/\ last.op = "__setitem__"
        /\ last.acc.cls = "BusMemoryAccessor"
        /\ last.idx.kind = "int"
        /\ last.err = NoError
        /\ last'.op = "__getitem__"
        /\ last'.acc = last.acc
        /\ last'.idx = last.idx)
       => last'.result = IntResult(last.value.n)]_vars

\* A read through the flat bus accessor returned ByteMax from the highest
\* address, where only a write can have put it.
C2_Witness ==
    /\ last.op = "__getitem__"
    /\ last.acc.cls = "BusMemoryAccessor"
    /\ last.idx = IntIdx(MaxAddr)
    /\ last.result = IntResult(ByteMax)

\* C3: reading a range through a bus accessor right after a write of
\* non-empty data to the same range through it, which the backend accepted,
\* returns the data.
C3_RangeRoundTrip ==
    [][(/\ last.op = "__setitem__"
        /\ IsDirect(last.acc.cls)
        /\ last.idx.kind = "slice"
        /\ last.err = NoError
        /\ last.value.n >= 1
        /\ last'.op = "__getitem__"
        /\ last'.acc = last.acc
        /\ last'.idx = last.idx)
       => last'.result = BytesResult(last.value.b)]_vars

\* A range read returned the two bytes ByteMax, 0.
C3_Witness ==
    /\ last.op = "__getitem__"
    /\ last.idx = Range(0, 2)
    /\ last.result = BytesResult(Pattern(2))

\* C4: a write of byte data to a well-formed range issues exactly one
\* backend write of the data at the start of the range, and succeeds, when
\* the data is as long as the range; otherwise it raises the size mismatch
\* error naming both lengths and issues no call.
C4_WriteRangeLength ==
    (last.op = "__setitem__" /\ IsDirect(last.acc.cls) /\ WellFormedSlice /\ ByteData)
        => IF last.value.n = LastExtent
           THEN last.calls = <<WriteCall(last.acc, LastStart, last.value.b)>> /\ Succeeded
           ELSE last.err = SizeMismatch(LastExtent, last.value.n) /\ last.calls = <<>>

\* One byte was written to a two-byte range.
C4_Witness ==
    /\ last.op = "__setitem__"
    /\ last.idx = Range(0, 2)
    /\ last.value = ListVal(Pattern(1))
    /\ last.err = SizeMismatch(2, 1)

\* C5: a single-byte write raises the value range error and issues no call
\* unless the value is an int in 0..255, and then issues exactly one backend
\* write of that byte at the address.
C5_WriteAtValue ==
    (last.op = "__setitem__" /\ IsDirect(last.acc.cls) /\ last.idx.kind = "int")
        => IF last.value.kind = "int" /\ last.value.n \in Byte
           THEN last.calls = <<WriteCall(last.acc, last.idx.addr, <<last.value.n>>)>>
           ELSE last.err = BadByte /\ last.calls = <<>>

\* A single-byte write of -1 was rejected.
C5_Witness ==
    /\ last.op = "__setitem__"
    /\ IsDirect(last.acc.cls)
    /\ last.value = IntVal(0 - 1)
    /\ last.err = BadByte

\* C6: reading a range with start = stop through any accessor returns
\* empty bytes and issues no backend call.
C6_EmptyRead ==
    (last.op = "__getitem__" /\ WellFormedSlice /\ LastExtent = 0)
        => (last.err = NoError /\ last.result = BytesResult(<<>>) /\ last.calls = <<>>)

\* An empty range was read through a region peek accessor.
C6_Witness ==
    /\ last.op = "__getitem__"
    /\ last.acc.cls = "RegionPeekAccessor"
    /\ last.idx = Range(1, 1)
    /\ last.result = BytesResult(<<>>)

\* C7: writing empty data to a range with start = stop issues exactly one
\* backend write, whose data is empty.
C7_EmptyWriteCalls ==
    (/\ last.op = "__setitem__"
     /\ IsDirect(last.acc.cls)
     /\ WellFormedSlice
     /\ LastExtent = 0
     /\ last.value = ListVal(<<>>))
        => (last.calls = <<WriteCall(last.acc, LastStart, <<>>)>> /\ Succeeded)

\* Empty data was written to an empty range.
C7_Witness ==
    /\ last.op = "__setitem__"
    /\ last.idx = Range(1, 1)
    /\ last.value = ListVal(<<>>)
    /\ Len(last.calls) = 1
    /\ last.err = NoError

\* C8: fill with a byte value issues no backend call when end <= start, and
\* otherwise exactly one backend write at start of end - start repetitions
\* of the value.
C8_Fill ==
    (last.op = "fill" /\ IsDirect(last.acc.cls) /\ last.value.n \in Byte)
        => IF last.args[2] <= last.args[1]
           THEN last.calls = <<>> /\ last.err = NoError
           ELSE /\ last.calls = <<WriteCall(last.acc, last.args[1],
                                            [i \in 1..(last.args[2] - last.args[1]) |-> last.value.n])>>
                /\ Succeeded

\* Two bytes were filled.
C8_Witness ==
    /\ last.op = "fill"
    /\ last.args = <<0, 2>>
    /\ last.err = NoError
    /\ mem = [a \in Addr |-> IF a < 2 THEN ByteMax ELSE 0]

\* C9: an operation invoked through a peek accessor, or a typed view of
\* one, issues no write call and leaves memory as it was.
C9_InspectNeverWrites ==
    IsInspect(last.acc.cls)
        => (/\ \A i \in 1..Len(last.calls) : last.calls[i].rpc \notin WriteRpcs
            /\ mem = pre.mem)

\* An item assignment was tried on a peek accessor.
C9_Witness ==
    /\ last.op = "__setitem__"
    /\ last.acc.cls = "PeekMemoryAccessor"
    /\ last.err = NoItemAssignment

\* C10: a read through a peek accessor (single, range, typed, save) is
\* served by PeekMemory, or PeekRegion for a region, only, and leaves the
\* read-sensitive state of the backend as it was.
C10_InspectReadsPeek ==
    (IsInspect(last.acc.cls) /\ last.op \in ReadOps)
        => (/\ \A i \in 1..Len(last.calls) :
                  last.calls[i].rpc =
                      (IF last.acc.region = "" THEN "PeekMemory" ELSE "PeekRegion")
            /\ ioLatch = pre.ioLatch)

\* A save through a region peek accessor called the backend after a bus
\* read had flipped the latch.
C10_Witness ==
    /\ last.op = "save"
    /\ last.acc.cls = "RegionPeekAccessor"
    /\ Len(last.calls) = 1
    /\ ioLatch

(***************************************************************************)
(* Properties of the region catalog.                                       *)
(***************************************************************************)
\* regions or machine_type has been entered by some thread.
Started == hist.done \/ \E t \in Threads : thread[t].pc # "idle"

\* The entry of the backend's catalog with the name, if any.
CatalogEntry(name) == first_named(GetMemoryRegions(machine).regions, name, 1)

\* C11: on a facade used sequentially, no GetMemoryRegions call is issued
\* before regions or machine_type is first entered, never more than one,
\* and exactly one once any of these accesses has returned.
C11_OneFetch ==
    /\ ~Started => hist.fetches = 0
    /\ hist.fetches <= 1
    /\ hist.done => hist.fetches = 1

\* regions has returned, and machine_type has just returned to a thread,
\* after one call.
C11_Witness ==
    /\ hist.regions_done
    /\ \E t \in Threads : seen_machine_type[t] # None
    /\ hist.fetches = 1

\* C12 as stated: whatever the number of concurrent callers, at most two
\* GetMemoryRegions calls are issued.
C12_AtMostTwo == hist.fetches <= 2

\* C12, amended: each concurrent caller fetches at most once, so at most
\* as many GetMemoryRegions calls are issued as there are callers.
C12_AtMostOnePerCaller == hist.fetches <= NumThreads

\* Every thread has fetched.
C12_Witness ==
    /\ hist.fetches = NumThreads
    /\ hist.done

\* C13: a caller to which machine_type has just returned a machine type
\* gets, from region(name) for a region of that machine, a handle that
\* carries the region's base address and size: it never sees the machine
\* type in the cache with the region list absent.
C13_Consistent ==
    (/\ handle # None
     /\ Val(handle).seen # None
     /\ CatalogEntry(Val(handle).region.name) # None)
        => (/\ Val(handle).region.base_address # None
            /\ Val(handle).region.size # None)

\* C14: region(name) issues no GetMemoryRegions call; the handle it
\* returns has no base address and no size when no call has been issued
\* yet, and once regions has returned it carries the base address and size
\* of the catalog's entry with that name (none if there is no such entry).
C14_RegionHandle ==
    [][handle' # None =>
        LET region == Val(handle').region
            entry == CatalogEntry(region.name)
        IN  /\ hist'.fetches = hist.fetches
            /\ region.name \in LookupNames
            /\ hist.fetches = 0 =>
                   (region.base_address = None /\ region.size = None)
            /\ hist.regions_done =>
                   IF entry = None
                   THEN region.base_address = None /\ region.size = None
                   ELSE /\ region.base_address = Some(Val(entry).base_address)
                        /\ region.size = Some(Val(entry).size)]_vars

\* After regions has returned, region("shadow_ram") gave a handle with the
\* base address and size of the Model B+ shadow RAM.
C14_Witness ==
    /\ hist.regions_done
    /\ handle # None
    /\ Val(handle).region.name = "shadow_ram"
    /\ Val(handle).region.base_address # None
    /\ Val(handle).region.size = Some(20480)

(***************************************************************************)
(* Properties of the typed views.                                          *)
(***************************************************************************)
\* Width in bytes of the elements of the last view.
Width == IF last.fmt.code = "H" THEN 2 ELSE 1

\* The last index was a range with both ends in order.
ForwardRange == WellFormedSlice /\ LastExtent >= 0

\* The element of the given width stored least significant byte first at
\* address a of memory m.
LittleEndianAt(m, a, width) == IF width = 2 THEN m[a] + 256 * m[a + 1] ELSE m[a]

\* The last view can do the last operation: every view reads, and the view
\* of a bus accessor writes.
ViewHasOp ==
    \/ last.op = "cast.__getitem__"
    \/ last.op = "cast.__setitem__" /\ IsDirect(last.acc.cls)

\* C15: a typed get or set over a range whose length is not a multiple of
\* the element width raises the alignment error, naming length and width,
\* and issues no backend call.
C15_Alignment ==
    (ViewHasOp /\ WellFormedSlice /\ LastExtent % Width # 0)
        => (last.err = Misaligned(LastExtent, Width) /\ last.calls = <<>>)

\* A three-byte range was read through a 16-bit view.
C15_Witness ==
    /\ last.op = "cast.__getitem__"
    /\ last.fmt = LittleU16
    /\ last.idx = Range(0, 3)
    /\ last.err = Misaligned(3, 2)

\* C16: a single-address set of v in 0..65535 through a "<H" view issues
\* exactly one backend write, at that address, of the bytes v mod 256,
\* v div 256.
C16_U16Write ==
    (/\ last.op = "cast.__setitem__"
     /\ IsDirect(last.acc.cls)
     /\ last.fmt = LittleU16
     /\ last.idx.kind = "int"
     /\ last.value.kind = "int"
     /\ last.value.n \in 0..65535)
        => (/\ last.calls = <<WriteCall(last.acc, last.idx.addr,
                                        <<last.value.n % 256, last.value.n \div 256>>)>>
            /\ Succeeded)

\* 0x1234 was set at the last element, and memory holds 0x34, 0x12 there.
C16_Witness ==
    /\ last.op = "cast.__setitem__"
    /\ last.fmt = LittleU16
    /\ last.idx = IntIdx(WideTop - 2)
    /\ last.value = IntVal(4660)
    /\ last.calls = <<WriteCall(last.acc, WideTop - 2, <<52, 18>>)>>
    /\ pre.mem = Ascending
    /\ mem[WideTop - 2] = 52
    /\ mem[WideTop - 1] = 18

\* C17: a typed get over an aligned range through a little-endian view
\* issues one backend read of the range's length at its start and returns
\* length / width elements, the i-th decoded from the i-th group of width
\* bytes.
C17_TypedRange ==
    (/\ last.op = "cast.__getitem__"
     /\ last.fmt.order = "<"
     /\ ForwardRange
     /\ LastExtent % Width = 0)
        => (/\ last.err = NoError
            /\ last.calls = <<ReadCall(last.acc, LastStart, LastExtent)>>
            /\ last.result =
                   TupleResult([i \in 1..(LastExtent \div Width) |->
                       LittleEndianAt(pre.mem, LastStart + (i - 1) * Width, Width)]))

\* The whole window, holding 1, 0, 2, 0, 3, 0, ..., was read through a
\* "<H" view as (1, 2, 3, ...).
C17_Witness ==
    /\ last.op = "cast.__getitem__"
    /\ last.fmt = LittleU16
    /\ last.idx = Range(0, WideTop)
    /\ pre.mem = Ascending
    /\ last.result = TupleResult(Counting(MaxElems))

\* C18: a typed set over an aligned range raises the size mismatch error,
\* naming the number of values expected and given, and issues no backend
\* call unless the value is a sequence of length / width values; given
\* that many integers the layout can hold, it issues exactly one backend
\* write of the range's length at its start.
C18_TypedSetCount ==
    (/\ last.op = "cast.__setitem__"
     /\ IsDirect(last.acc.cls)
     /\ ForwardRange
     /\ LastExtent % Width = 0)
        => LET count == LastExtent \div Width IN
           IF last.value.kind \notin {"str", "list"}
           THEN last.err = WrongCount(count, 1) /\ last.calls = <<>>
           ELSE IF last.value.n # count
           THEN last.err = WrongCount(count, last.value.n) /\ last.calls = <<>>
           ELSE (/\ last.value.kind = "list"
                 /\ \A i \in 1..count : last.value.b[i] \in 0..(IF Width = 2 THEN 65535 ELSE ByteMax))
                    => (/\ Len(last.calls) = 1
                        /\ last.calls[1].rpc \in WriteRpcs
                        /\ last.calls[1].address = LastStart
                        /\ Len(last.calls[1].data) = LastExtent
                        /\ Succeeded)

\* One value too many was given for the whole window.
C18_Witness ==
    /\ last.op = "cast.__setitem__"
    /\ last.idx = Range(0, WideTop)
    /\ last.err = WrongCount(MaxElems, MaxElems + 1)

\* C19: through any view, a get at an address returns what a get over the
\* range of one element at that address, made right after it, returns as
\* its first element.
C19_SingleMatchesRange ==
    [][(/\ last.op = "cast.__getitem__"
        /\ last.idx.kind = "int"
        /\ last.err = NoError
        /\ last'.op = "cast.__getitem__"
        /\ last'.acc = last.acc
        /\ last'.fmt = last.fmt
        /\ last'.idx = Range(last.idx.addr, last.idx.addr + Width)
        /\ mem' = mem)
       => (last'.err = NoError /\ last'.result.b[1] = last.result.n)]_vars

(***************************************************************************)
(* Properties of load.                                                     *)
(***************************************************************************)
Least(S) == CHOOSE x \in S : \A y \in S : x <= y

\* C20: a load the backend accepts issues one backend write, at the
\* address, of the first min(len(source), max_length, 65536 - address)
\* bytes of the source, and returns that count.
C20_LoadClips ==
    (last.op = "load" /\ IsDirect(last.acc.cls) /\ last.resp.success)
        => LET address == last.args[1]
               count == Least({Len(last.value.b), last.args[2], 65536 - address})
           IN  /\ last.err = NoError
               /\ last.calls = <<WriteCall(last.acc, address, SubSeq(last.value.b, 1, count))>>
               /\ last.result = IntResult(count)

(***************************************************************************)
(* Properties of save, of malformed ranges and indices, of backend         *)
(* failures and of region accessors.                                       *)
(***************************************************************************)
\* C21: save(address, length) issues the backend calls, and obtains the
\* bytes, of a read of the range address:address+length through the same
\* accessor; none when length is 0.
C21_SaveViaReadRange ==
    last.op = "save"
        => LET address == last.args[1]
               r == getitem(last.acc, Range(address, address + last.args[2]), pre.mem)
           IN  /\ last.err = r.err
               /\ last.calls = r.calls
               /\ last.result = r.result

\* C22: a read or write of a range with stop < start raises an error and
\* issues no backend call.
C22_NegativeRangeRejected ==
    (last.op \in {"__getitem__", "__setitem__"} /\ WellFormedSlice /\ LastExtent < 0)
        => (last.err # NoError /\ last.calls = <<>>)

\* The sequence s has x among its elements.
Carries(s, x) == \E i \in DOMAIN s : s[i] = x

\* C23: when the backend refuses a write sent through a bus accessor, the
\* operation raises MemoryAccessError, and the error carries the address of
\* the write, the region name for a region accessor, and the backend's
\* error text.
C23_BackendFailure ==
    (/\ last.calls # <<>>
     /\ last.calls[1].rpc \in WriteRpcs
     /\ ~last.resp.success)
        => (/\ last.err.type = "MemoryAccessError"
            /\ Carries(last.err.nums, last.calls[1].address)
            /\ IsRegion(last.acc.cls) => Carries(last.err.strs, last.acc.region)
            /\ Carries(last.err.strs, last.resp.error))

\* The last operation was a subscript read, or a subscript write through
\* an accessor that has one.
SubscriptOp ==
    \/ last.op = "__getitem__"
    \/ last.op = "__setitem__" /\ IsDirect(last.acc.cls)

\* C24: a read or write of a range with a stop whose step is given and is
\* not 1 raises the step error and issues no backend call; with the step
\* absent or 1 the step error is not raised, and a read succeeds.
C24_StepRejected ==
    (SubscriptOp /\ last.idx.kind = "slice" /\ last.idx.stop # None)
        => IF UnitStep(last.idx)
           THEN /\ last.err # BadStep
                /\ last.op = "__getitem__" => last.err = NoError
           ELSE last.err = BadStep /\ last.calls = <<>>

\* A write to [0:2:2] was rejected for its step while memory holds written
\* bytes.
C24_Witness ==
    /\ last.op = "__setitem__"
    /\ IsDirect(last.acc.cls)
    /\ last.idx = SliceIdx(Some(0), Some(2), Some(2))
    /\ last.err = BadStep
    /\ mem[0] = ByteMax

\* C25: a subscript read or write, through an accessor or through a typed
\* view, of a range without a stop raises the missing-stop error, whatever
\* the start and the step, and issues no backend call.
C25_OpenRangeRejected ==
    ((SubscriptOp \/ ViewHasOp) /\ last.idx.kind = "slice" /\ last.idx.stop = None)
        => (last.err = NoStop /\ last.calls = <<>>)

\* A typed write to [0::2] was rejected for its missing stop while memory
\* holds written bytes.
C25_Witness ==
    /\ last.op = "cast.__setitem__"
    /\ IsDirect(last.acc.cls)
    /\ last.idx = SliceIdx(Some(0), None, Some(2))
    /\ last.err = NoStop
    /\ mem[0] = ByteMax

\* The address the caller gave in the last subscript.
CallerAddress == IF last.idx.kind = "int" THEN last.idx.addr ELSE LastStart

\* C26: a subscript read or write through the accessor of a region handle
\* issues at most one backend call, exactly one for a single address; the
\* call is the region RPC of the accessor (ReadRegion for bus, PeekRegion
\* for peek, WriteRegion for a write) with the region name of the handle,
\* the address the caller gave, and the caller's length or data, whether
\* or not the catalog, and with it the handle's base address, is cached.
C26_NoTranslation ==
    (last.op \in {"__getitem__", "__setitem__"} /\ IsRegion(last.acc.cls)
     /\ last.err.type \in {"", "MemoryAccessError"})
        => /\ Len(last.calls) <= 1
           /\ last.idx.kind = "int" => Len(last.calls) = 1
           /\ \A i \in DOMAIN last.calls :
                LET c == last.calls[i] IN
                /\ c.region = last.acc.region
                /\ c.address = CallerAddress
                /\ IF last.op = "__setitem__"
                   THEN /\ c.rpc = "WriteRegion"
                        /\ c.data = IF last.idx.kind = "int" THEN <<last.value.n>>
                                    ELSE last.value.b
                   ELSE /\ c.rpc = IF last.acc.cls = "RegionBusAccessor"
                                   THEN "ReadRegion" ELSE "PeekRegion"
                        /\ c.length = IF last.idx.kind = "int" THEN 1 ELSE LastExtent

\* With the catalog cached, shadow_ram was read at the last address of the
\* window, above its base address, and the byte written there came back.
C26_Witness ==
    /\ regions_cache # None
    /\ last.op = "__getitem__"
    /\ last.acc = [cls |-> "RegionPeekAccessor", region |-> "shadow_ram"]
    /\ last.idx = IntIdx(HardwareBase("shadow_ram") + MaxAddr)
    /\ region_lookup(regions_cache, "shadow_ram").base_address = Some(HardwareBase("shadow_ram"))
    /\ last.result = IntResult(ByteMax)

\* C27: a subscript read or write through an accessor, and a typed get or
\* set, whose index is neither an integer nor a slice raises the TypeError
\* "indices must be int or slice", issues no backend call and leaves the
\* backend as it was.
C27_InvalidIndexKind ==
    ((SubscriptOp \/ ViewHasOp) /\ last.idx.kind = "other")
        => /\ last.err = BadIndex
           /\ last.calls = <<>>
           /\ mem = pre.mem
           /\ ioLatch = pre.ioLatch

\* A typed get through a bus accessor with such an index was refused after
\* a byte had been written at address 0.
C27_Witness ==
    /\ last.op = "cast.__getitem__"
    /\ last.acc.cls = "BusMemoryAccessor"
    /\ last.idx = OtherIdx
    /\ last.err = BadIndex
    /\ mem[0] = ByteMax

\* C28: a typed get over a range of length zero returns no elements and
\* issues no backend call.
C28_TypedEmptyRange ==
    (last.op = "cast.__getitem__" /\ WellFormedSlice /\ LastExtent = 0)
        => /\ last.err = NoError
           /\ last.result = TupleResult(<<>>)
           /\ last.calls = <<>>

\* C29: a typed get or set over a range whose step is given and is not 1
\* raises an error and issues no backend call.
C29_TypedStepRejected ==
    (ViewHasOp /\ last.idx.kind = "slice" /\ ~UnitStep(last.idx))
        => (last.err # NoError /\ last.calls = <<>>)

Shifted(char) == char_to_matrix(char) # None /\ Val(char_to_matrix(char))[3]

\* The stub call that releases SHIFT.
ShiftRelease == [rpc |-> "KeyUp", row |-> SHIFT_KEY[1], column |-> SHIFT_KEY[2]]

\* C30: while a shifted character pressed by key_down has not been released,
\* SHIFT is held down in the backend's matrix; a key_up that releases SHIFT
\* leaves no shifted character in the pressed-key set; and release_all
\* leaves the pressed-key set empty.
C30_ShiftTracking ==
    /\ (\E char \in hist.held : Shifted(char)) => SHIFT_KEY \in matrix
    /\ (last.op = "key_up" /\ Carries(last.calls, ShiftRelease))
           => ~\E key \in pressed_keys : key[2]
    /\ last.op = "release_all" => pressed_keys = {}

\* With "A" and "B" pressed, "A" was released: its key went up, SHIFT was
\* not released and is still held down for "B".
C30_Witness ==
    /\ last.op = "key_up"
    /\ last.char = "A"
    /\ last.calls = <<[rpc |-> "KeyUp", row |-> 4, column |-> 1]>>
    /\ hist.held = {"B"}
    /\ pressed_keys = {<<"B", TRUE>>}
    /\ SHIFT_KEY \in matrix

====
